---- MODULE Spec2Model ----
(***************************************************************************)
(* A model of build_image.py: the pipeline of main() (argument validation, *)
(* tool check, listing fetch, candidate selection, version extraction,    *)
(* ISO download, image creation, QEMU launch) run repeatedly against one   *)
(* working directory, together with the text functions it relies on        *)
(* (str.lower, str comparison, re.match / re.search).                      *)
(*                                                                         *)
(* Strings are sequences of one-character strings, so that the regular     *)
(* expressions and the string ordering are computed, not assumed.          *)
(***************************************************************************)
EXTENDS Integers, Sequences, FiniteSets, TLC

VARIABLES
    run,            \* number of runs of the program started so far
    pc,             \* position of the running process in main(), or "exited"
    args,           \* the parsed command line: [list, distro, force]
    linux_distro,   \* args.distro.lower()
    headers,        \* the User-Agent picked by get_url_paths while it runs
    response,       \* the listing page served to this run (anchors in page order)
    html,           \* the selected candidate, made absolute
    iso_image,      \* last path segment of html
    version_image,  \* the version token found in iso_image
    cloud_image,    \* name of the block device image
    fs,             \* the working directory: file name -> content
    fsAtStart,      \* the working directory when the current run started
    lastRun,        \* how the run before the current one ended
    exitStatus,     \* the exit status of the process once pc = "exited"
    err,            \* how the run ended
    stages,         \* the pipeline stages this run has started, in order
    netLog,         \* the network requests this run has issued, in order
    procLog,        \* the QEMU commands this run has invoked, in order
    dlOutcome,      \* what download_file returned in this run
    dlCalls,        \* every call of download_file so far, over all runs
    cmd_linux,      \* the Linux command template, filled in
    cmd_windows     \* the Windows command template, filled in

vars == <<run, pc, args, linux_distro, headers, response, html, iso_image,
          version_image, cloud_image, fs, fsAtStart, lastRun, exitStatus, err, stages,
          netLog, procLog, dlOutcome, dlCalls, cmd_linux, cmd_windows>>

----------------------------------------------------------------------------
(* Text *)

\* The characters that occur, in code point order (Python compares str by
\* code point).
CodePoints ==
    <<"-", ".", "/", "0", "1", "2", "3", "4", "5", "6", "7", "8", "9", ":",
      "A", "B", "C", "D", "E", "F", "G", "H", "I", "J", "K", "L", "M", "N",
      "O", "P", "Q", "R", "S", "T", "U", "V", "W", "X", "Y", "Z", "_",
      "a", "b", "c", "d", "e", "f", "g", "h", "i", "j", "k", "l", "m", "n",
      "o", "p", "q", "r", "s", "t", "u", "v", "w", "x", "y", "z">>

Ord(c) == CHOOSE i \in 1..Len(CodePoints) : CodePoints[i] = c

IsDigit(c) == c \in {"0", "1", "2", "3", "4", "5", "6", "7", "8", "9"}

UpperCase == <<"A", "B", "C", "D", "E", "F", "G", "H", "I", "J", "K", "L", "M",
               "N", "O", "P", "Q", "R", "S", "T", "U", "V", "W", "X", "Y", "Z">>

LowerCase == <<"a", "b", "c", "d", "e", "f", "g", "h", "i", "j", "k", "l", "m",
               "n", "o", "p", "q", "r", "s", "t", "u", "v", "w", "x", "y", "z">>

\* lower() leaving the string as typed.
Lower_asTyped(s) == s

\* str.lower() on one character, then on a string.
LowerChar(c) ==
    IF \E i \in 1..Len(UpperCase) : UpperCase[i] = c
    THEN LowerCase[CHOOSE i \in 1..Len(UpperCase) : UpperCase[i] = c]
    ELSE c

Lower(s) == [i \in 1..Len(s) |-> LowerChar(s[i])]

\* Python's s < t on str.
RECURSIVE StrLess(_, _)
StrLess(s, t) ==
    IF t = <<>> THEN FALSE
    ELSE IF s = <<>> THEN TRUE
    ELSE IF s[1] # t[1] THEN Ord(s[1]) < Ord(t[1])
    ELSE StrLess(Tail(s), Tail(t))

\* s.split("/")[-1]
LastSegment(s) ==
    LET slashes == {i \in 1..Len(s) : s[i] = "/"}
        last == IF slashes = {} THEN 0
                ELSE CHOOSE i \in slashes : \A j \in slashes : j <= i
    IN  SubSeq(s, last + 1, Len(s))

Min(S) == CHOOSE x \in S : \A y \in S : x <= y
Max(S) == CHOOSE x \in S : \A y \in S : y <= x

----------------------------------------------------------------------------
(* Regular expressions.  A pattern is a sequence of elements:              *)
(*   lit c     the character c                                             *)
(*   any       .      (any character; no newline occurs in the model)      *)
(*   digits    [0-9]+                                                      *)
(*   anystar   .*                                                          *)
(*   eol       $                                                           *)
(*   bol       ^                                                           *)
(* A position p in 1..Len(s)+1 stands before the p-th character.           *)

Lit(s) == [i \in 1..Len(s) |-> [t |-> "lit", c |-> s[i]]]
AnyChar == <<[t |-> "any", c |-> ""]>>
Digits == <<[t |-> "digits", c |-> ""]>>
AnyStar == <<[t |-> "anystar", c |-> ""]>>
Eol == <<[t |-> "eol", c |-> ""]>>
Bol == <<[t |-> "bol", c |-> ""]>>

\* The positions one element can end at, having started at a position of P.
Step(e, s, P) ==
    CASE e.t = "lit" -> {p + 1 : p \in {q \in P : q <= Len(s) /\ s[q] = e.c}}
      [] e.t = "any" -> {p + 1 : p \in {q \in P : q <= Len(s)}}
      [] e.t = "digits" ->
            {q \in 2..(Len(s) + 1) :
                \E p \in P : p < q /\ \A i \in p..(q - 1) : IsDigit(s[i])}
      [] e.t = "anystar" -> {q \in 1..(Len(s) + 1) : \E p \in P : p <= q}
      [] e.t = "eol" -> {p \in P : p = Len(s) + 1}
      [] e.t = "bol" -> {p \in P : p = 1}

\* The positions elements k.. of pat can end at, having started in P.
RECURSIVE Ends(_, _, _, _)
Ends(pat, s, k, P) ==
    IF k > Len(pat) \/ P = {} THEN P
    ELSE Ends(pat, s, k + 1, Step(pat[k], s, P))

\* re.match doing what re.search does: a match that starts anywhere.
ReMatch_anywhere(pat, s) ==
    \E i \in 1..(Len(s) + 1) : Ends(pat, s, 1, {i}) # {}

\* re.match(pat, s) is not None: a match that starts at the first character.
ReMatch(pat, s) == Ends(pat, s, 1, {1}) # {}

\* re.search(pat, s) is not None: a match that starts anywhere.
ReSearch(pat, s) == \E i \in 1..(Len(s) + 1) : Ends(pat, s, 1, {i}) # {}

----------------------------------------------------------------------------
(* The program's constants *)

HttpsPrefix == <<"h","t","t","p","s",":","/","/">>

\* DISTRO_OS: key -> [filter_value, url, url_pattern].  url_pattern is kept as
\* the id attribute an anchor needs for its href to be captured ("" for any
\* href="...").
Archlinux == <<"a","r","c","h","l","i","n","u","x">>
Manjaro == <<"m","a","n","j","a","r","o">>

ArchlinuxEntry ==
    [ filter_value |-> Lit(Archlinux \o <<"-">>) \o Digits \o AnyChar \o Digits
                       \o AnyChar \o Digits \o Lit(<<"-">>) \o AnyStar
                       \o AnyChar \o Lit(<<"i","s","o">>) \o Eol,
      url |-> <<"h","t","t","p","s",":","/","/","a","r","c","h","l","i","n",
                "u","x",".","c","u",".","b","e","/","i","s","o","/","l","a",
                "t","e","s","t","/">>,
      url_pattern |-> "" ]

ManjaroEntry ==
    [ filter_value |-> AnyStar \o Lit(<<"/">> \o Manjaro
                                      \o <<"-","x","f","c","e","-">>)
                       \o AnyStar \o AnyChar \o Lit(<<"i","s","o">>) \o Eol,
      url |-> <<"h","t","t","p","s",":","/","/","m","a","n","j","a","r","o",
                ".","o","r","g","/","d","o","w","n","l","o","a","d","/">>,
      url_pattern |-> "btn-mi" ]

DistroKeys == {Archlinux, Manjaro}

DISTRO_OS(key) == IF key = Archlinux THEN ArchlinuxEntry ELSE ManjaroEntry

\* The alternatives with MAJOR.MINOR tried before MAJOR.MINOR.PATCH.
VersionAlternatives_minorFirst ==
    << Digits \o Lit(<<".">>) \o Digits,
       Digits \o Lit(<<".">>) \o Digits \o Lit(<<".">>) \o Digits,
       Digits \o Lit(<<"T">>) >>

\* The version pattern of main():
\* (([0-9]+\.[0-9]+\.[0-9]+)|([0-9]+\.[0-9]+)|([0-9]+T))
VersionAlternatives ==
    << Digits \o Lit(<<".">>) \o Digits \o Lit(<<".">>) \o Digits,
       Digits \o Lit(<<".">>) \o Digits,
       Digits \o Lit(<<"T">>) >>

\* re.compile(alternatives).search(s): the match object, as [found, group0].
\* The scan takes the leftmost start position at which some alternative
\* matches; there the alternatives are tried in order, each greedily.
SearchAlternatives(alts, s) ==
    LET matchesAt(a, i) == Ends(alts[a], s, 1, {i}) # {}
        starts == {i \in 1..(Len(s) + 1) :
                      \E a \in 1..Len(alts) : matchesAt(a, i)}
    IN  IF starts = {} THEN [found |-> FALSE, group0 |-> <<>>]
        ELSE LET i == Min(starts)
                 a == Min({b \in 1..Len(alts) : matchesAt(b, i)})
                 e == Max(Ends(alts[a], s, 1, {i}))
             IN  [found |-> TRUE, group0 |-> SubSeq(s, i, e - 1)]

VersionSearch(s) == SearchAlternatives(VersionAlternatives, s)

\* f"{linux_distro}-cloud-{version_image}-x86_64.img"
CloudImageName(distro, version) ==
    distro \o <<"-","c","l","o","u","d","-">> \o version
           \o <<"-","x","8","6","_","6","4",".","i","m","g">>

----------------------------------------------------------------------------
(* The working directory *)

NoFiles == [n \in {} |-> 0]

\* is_file() answering False whatever is there.
IsFile_never(files, name) == FALSE

\* pathlib.Path(name).is_file()
IsFile(files, name) == name \in DOMAIN files

\* unlink() leaving the file where it is.
Unlink_keeps(files, name) == files

\* pathlib.Path(name).unlink(missing_ok=True)
Unlink(files, name) == [n \in (DOMAIN files) \ {name} |-> files[n]]

\* open(name, "wb") and the writes that follow: the file is created or
\* truncated, and holds what was written.
WriteFile(files, name, content) ==
    [n \in (DOMAIN files) \cup {name} |->
        IF n = name THEN content ELSE files[n]]

\* What stands for the content of a file that is not there.
Absent == [complete |-> FALSE, run |-> 0]

\* The content of a file, or Absent.
Content(files, name) ==
    IF name \in DOMAIN files THEN files[name] ELSE Absent

----------------------------------------------------------------------------
(* The process *)

Unset == <<>>

\* --memory's default.
DefaultMemory == 2048

NoArgs ==
    [list |-> FALSE, distro |-> Unset, force |-> FALSE,
     memory |-> DefaultMemory]

\* How many runs of the program the model follows.
MaxRuns == 2

\* The length of my_headers, the User-Agent pool of get_url_paths.
NumUserAgents == 9

\* The six stages of the pipeline, in the order main() reaches them.
StageOrder ==
    <<"lookup", "resolve", "extract", "download", "provision", "launch">>

\* sys.exit(status), or the interpreter ending on an uncaught exception.
Exit(status, how) ==
    /\ pc' = "exited"
    /\ exitStatus' = status
    /\ err' = how

\* v_error without its sys.exit: it records the error and returns.
VError_returns(how, resume) ==
    /\ pc' = resume
    /\ exitStatus' = 0
    /\ err' = how

\* Verbosity.v_error(message): prints the message and calls sys.exit(0).
\* resume is where the caller would go on if v_error returned, which it
\* does not.
VError(how, resume) == Exit(0, how)

\* An exception nothing catches: traceback, exit status 1.
Uncaught(how) == Exit(1, how)

Init ==
    /\ run = 0
    /\ pc = "exited"
    /\ args = NoArgs
    /\ linux_distro = Unset
    /\ headers = 0
    /\ response = Unset
    /\ html = Unset
    /\ iso_image = Unset
    /\ version_image = Unset
    /\ cloud_image = Unset
    /\ fs = NoFiles
    /\ fsAtStart = NoFiles
    /\ lastRun = [err |-> "none", dlOutcome |-> "none", iso_image |-> Unset]
    /\ exitStatus = 0
    /\ err = "none"
    /\ stages = <<>>
    /\ netLog = <<>>
    /\ procLog = <<>>
    /\ dlOutcome = "none"
    /\ dlCalls = <<>>
    /\ cmd_linux = Unset
    /\ cmd_windows = Unset

\* The values a fresh process starts from: nothing of an earlier run is kept
\* but the working directory.
FreshProcess ==
    /\ linux_distro' = Unset
    /\ headers' = 0
    /\ response' = Unset
    /\ html' = Unset
    /\ iso_image' = Unset
    /\ version_image' = Unset
    /\ cloud_image' = Unset
    /\ fsAtStart' = fs
    /\ exitStatus' = 0
    /\ err' = "none"
    /\ stages' = <<>>
    /\ netLog' = <<>>
    /\ procLog' = <<>>
    /\ dlOutcome' = "none"
    /\ cmd_linux' = Unset
    /\ cmd_windows' = Unset

\* The user starts the program in the working directory, with a command
\* line: --list or not, --distro d, --force or not.
StartRun(names) ==
    /\ pc = "exited"
    /\ run < MaxRuns
    /\ \E l \in BOOLEAN, d \in names, f \in BOOLEAN :
          args' = [list |-> l, distro |-> d, force |-> f,
                   memory |-> DefaultMemory]
    /\ run' = run + 1
    /\ pc' = "import"
    /\ FreshProcess
    /\ UNCHANGED <<fs, dlCalls>>
    /\ lastRun' = [err |-> err, dlOutcome |-> dlOutcome,
                   iso_image |-> iso_image]

\* main(), the import loop: every package is imported (or installed with pip
\* and then imported), or the program exits with status 1.
ImportPackages ==
    /\ pc = "import"
    /\ \/ /\ pc' = "validate"
          /\ UNCHANGED <<exitStatus, err>>
       \/ Exit(1, "MissingPackage")
    /\ UNCHANGED <<run, args, linux_distro, headers, response, html, iso_image,
                   version_image, cloud_image, fs, fsAtStart, lastRun, stages, netLog,
                   procLog, dlOutcome, dlCalls, cmd_linux, cmd_windows>>

\* main(), argument handling: linux_distro = args.distro.lower(); --list
\* prints the keys and exits 0; otherwise the name is looked up in DISTRO_OS.
ValidateArgs ==
    /\ pc = "validate"
    /\ linux_distro' = Lower(args.distro)
    /\ \/ /\ args.list
          /\ Exit(0, "none")
          /\ UNCHANGED stages
       \/ /\ ~args.list
          /\ stages' = Append(stages, "lookup")
          /\ IF linux_distro' \notin DistroKeys
             THEN VError("UnknownDistribution", "tools")
             ELSE /\ pc' = "tools"
                  /\ UNCHANGED <<exitStatus, err>>
    /\ UNCHANGED <<run, args, headers, response, html, iso_image,
                   version_image, cloud_image, fs, fsAtStart, lastRun, netLog,
                   procLog, dlOutcome, dlCalls, cmd_linux, cmd_windows>>

RequiredApplications ==
    <<"qemu-img --version", "qemu-system-x86_64 --version">>

\* main(), the loop over required_applications, with is_tool: each tool is
\* run with --version.  A tool that is not found ends the run through
\* v_error; one that exits non-zero raises CalledProcessError, which nothing
\* catches.
CheckTools ==
    /\ pc = "tools"
    /\ \/ /\ procLog' = procLog \o RequiredApplications
          /\ pc' = "fetch"
          /\ UNCHANGED <<exitStatus, err>>
       \/ \E k \in 1..Len(RequiredApplications) :
             /\ procLog' = procLog \o SubSeq(RequiredApplications, 1, k)
             /\ \/ VError("MissingPrerequisite", "fetch")
                \/ Uncaught("CalledProcessError")
    /\ UNCHANGED <<run, args, linux_distro, headers, response, html,
                   iso_image, version_image, cloud_image, fs, fsAtStart, lastRun,
                   stages, netLog, dlOutcome, dlCalls, cmd_linux, cmd_windows>>

\* get_url_paths, up to the request: a User-Agent is drawn from my_headers
\* and the listing URL is requested.
GetUrlPathsSend ==
    /\ pc = "fetch"
    /\ stages' = Append(stages, "resolve")
    /\ \E ua \in 1..NumUserAgents : headers' = ua
    /\ netLog' = Append(netLog, "listing")
    /\ pc' = "fetching"
    /\ UNCHANGED <<run, args, linux_distro, response, html, iso_image,
                   version_image, cloud_image, fs, fsAtStart, lastRun, exitStatus, err,
                   procLog, dlOutcome, dlCalls, cmd_linux, cmd_windows>>

\* get_url_paths, from the response on: a page is served (pages[url] are the
\* pages the server may serve), or the request fails or is answered with an
\* error status, and raise_for_status raises.
GetUrlPathsReceive(pages) ==
    /\ pc = "fetching"
    /\ headers' = 0
    /\ \/ /\ \E page \in pages[DISTRO_OS(linux_distro).url] : response' = page
          /\ pc' = "select"
          /\ UNCHANGED <<exitStatus, err>>
       \/ /\ Uncaught("FetchError")
          /\ UNCHANGED response
    /\ UNCHANGED <<run, args, linux_distro, html, iso_image, version_image,
                   cloud_image, fs, fsAtStart, lastRun, stages, netLog, procLog,
                   dlOutcome, dlCalls, cmd_linux, cmd_windows>>

\* re.findall(url_pattern, response.text): the href of every anchor the
\* pattern matches, in page order.
FindAll(page, url_pattern) ==
    LET keep(a) == url_pattern = "" \/ a.id = url_pattern
        F[i \in 0..Len(page)] ==
            IF i = 0 THEN <<>>
            ELSE IF keep(page[i]) THEN Append(F[i - 1], page[i].href)
            ELSE F[i - 1]
    IN  F[Len(page)]

\* list(filter(lambda v: re.match(filter_value, v), result))
FilterValues(filter_value, result) ==
    LET F[i \in 0..Len(result)] ==
            IF i = 0 THEN <<>>
            ELSE IF ReMatch(filter_value, result[i])
                 THEN Append(F[i - 1], result[i])
            ELSE F[i - 1]
    IN  F[Len(result)]

\* One element put into a list sorted in descending order.
RECURSIVE InsertDescending(_, _)
InsertDescending(x, sorted) ==
    IF sorted = <<>> THEN <<x>>
    ELSE IF StrLess(Head(sorted), x) THEN <<x>> \o sorted
    ELSE <<Head(sorted)>> \o InsertDescending(x, Tail(sorted))

\* values.sort() without reverse=True: ascending order.
RECURSIVE InsertAscending(_, _)
InsertAscending(x, sorted) ==
    IF sorted = <<>> THEN <<x>>
    ELSE IF StrLess(x, Head(sorted)) THEN <<x>> \o sorted
    ELSE <<Head(sorted)>> \o InsertAscending(x, Tail(sorted))

RECURSIVE SortReverse_ascending(_)
SortReverse_ascending(values) ==
    IF values = <<>> THEN <<>>
    ELSE InsertAscending(Head(values), SortReverse_ascending(Tail(values)))

\* values.sort(reverse=True)
RECURSIVE SortReverse(_)
SortReverse(values) ==
    IF values = <<>> THEN <<>>
    ELSE InsertDescending(Head(values), SortReverse(Tail(values)))

\* main(), the selection: the greatest filtered value, made absolute when it
\* does not start with https://.
Resolve(entry, page) ==
    LET filtered_values == FilterValues(entry.filter_value,
                                        FindAll(page, entry.url_pattern))
        first == SortReverse(filtered_values)[1]
    IN  IF filtered_values = <<>> THEN [found |-> FALSE, html |-> Unset]
        ELSE [found |-> TRUE,
              html |-> IF ReSearch(Bol \o Lit(HttpsPrefix), first) THEN first
                       ELSE entry.url \o first]

SelectCandidate ==
    /\ pc = "select"
    /\ LET r == Resolve(DISTRO_OS(linux_distro), response)
       IN  IF ~r.found
           THEN /\ VError("NoCandidateFound", "extract")
                /\ UNCHANGED html
           ELSE /\ html' = r.html
                /\ pc' = "extract"
                /\ UNCHANGED <<exitStatus, err>>
    /\ UNCHANGED <<run, args, linux_distro, headers, response, iso_image,
                   version_image, cloud_image, fs, fsAtStart, lastRun, stages, netLog,
                   procLog, dlOutcome, dlCalls, cmd_linux, cmd_windows>>

\* main(), the names: iso_image is the last path segment; the version is
\* search(iso_image).group(0), which raises AttributeError when nothing
\* matches.
ExtractVersion ==
    /\ pc = "extract"
    /\ stages' = Append(stages, "extract")
    /\ iso_image' = LastSegment(html)
    /\ LET m == VersionSearch(iso_image')
       IN  IF ~m.found
           THEN /\ Uncaught("VersionNotFound")
                /\ UNCHANGED <<version_image, cloud_image>>
           ELSE /\ version_image' = m.group0
                /\ cloud_image' = CloudImageName(linux_distro, m.group0)
                /\ pc' = "download"
                /\ UNCHANGED <<exitStatus, err>>
    /\ UNCHANGED <<run, args, linux_distro, headers, response, html, fs,
                   fsAtStart, lastRun, netLog, procLog, dlOutcome, dlCalls, cmd_linux,
                   cmd_windows>>

\* download_file handing a failed request back to its caller instead of
\* raising: nothing is written and the call returns.
DownloadFile_errorReturned(files, force, image, served, stamp) ==
    IF ~force /\ IsFile(files, image)
    THEN [files |-> files, requested |-> FALSE, ended |-> "returned",
          message |-> "AlreadyPresent"]
    ELSE [files |-> IF force THEN Unlink(files, image) ELSE files,
          requested |-> TRUE, ended |-> "returned",
          message |-> "DownloadFailed"]

\* download_file(force, image, url), as [files, requested, ended, message]:
\* the working directory it leaves, whether it issued the GET, and how it
\* ended.  served is what the network does if asked: "error" (no connection,
\* or an error status: raise_for_status raises), "complete" (the body is
\* streamed to the end) or "broken" (the stream breaks after some chunks
\* were written).  stamp marks what this call writes.
DownloadFile(files, force, image, served, stamp) ==
    LET cleared == IF force THEN Unlink(files, image) ELSE files
    IN  IF ~force /\ IsFile(files, image)
        THEN [files |-> files, requested |-> FALSE, ended |-> "returned",
              message |-> "AlreadyPresent"]
        ELSE IF served = "error"
        THEN [files |-> cleared, requested |-> TRUE, ended |-> "raised",
              message |-> "DownloadFailed"]
        ELSE IF served = "broken"
        THEN [files |-> WriteFile(cleared, image,
                                  [complete |-> FALSE, run |-> stamp]),
              requested |-> TRUE, ended |-> "raised",
              message |-> "DownloadFailed"]
        ELSE LET written == WriteFile(cleared, image,
                                      [complete |-> TRUE, run |-> stamp])
             IN  IF IsFile(written, image)
                 THEN [files |-> written, requested |-> TRUE,
                       ended |-> "returned", message |-> "Downloaded"]
                 ELSE [files |-> written, requested |-> TRUE,
                       ended |-> "raised", message |-> "TypeError"]

\* main(), the download: download_file is called once; what it raises is
\* not caught.
DownloadStage ==
    /\ pc = "download"
    /\ stages' = Append(stages, "download")
    /\ \E served \in {"error", "complete", "broken"} :
          LET d == DownloadFile(fs, args.force, iso_image, served, run)
          IN  /\ fs' = d.files
              /\ netLog' = IF d.requested THEN Append(netLog, "download")
                           ELSE netLog
              /\ dlCalls' = Append(dlCalls,
                                [image |-> iso_image, force |-> args.force,
                                 before |-> Content(fs, iso_image),
                                 after |-> Content(d.files, iso_image),
                                 requested |-> d.requested,
                                 message |-> d.message])
              /\ IF d.ended = "returned"
                 THEN /\ dlOutcome' = d.message
                      /\ pc' = "provision"
                      /\ UNCHANGED <<exitStatus, err>>
                 ELSE /\ Uncaught(d.message)
                      /\ UNCHANGED dlOutcome
    /\ UNCHANGED <<run, args, linux_distro, headers, response, html,
                   iso_image, version_image, cloud_image, fsAtStart, lastRun, procLog,
                   cmd_linux, cmd_windows>>

\* A provisioning stage that rolls the download back when it fails: the
\* ISO is removed with the image.
ProvisionStage_rollback ==
    /\ pc = "provision"
    /\ stages' = Append(stages, "provision")
    /\ procLog' = Append(procLog, "qemu-img create")
    /\ \/ /\ fs' = Unlink(Unlink(fs, cloud_image), iso_image)
          /\ VError("ProvisionFailed", "launch")
       \/ /\ fs' = WriteFile(Unlink(fs, cloud_image), cloud_image,
                             [complete |-> TRUE, run |-> run])
          /\ pc' = "launch"
          /\ UNCHANGED <<exitStatus, err>>
    /\ UNCHANGED <<run, args, linux_distro, headers, response, html,
                   iso_image, version_image, cloud_image, fsAtStart, lastRun,
                   netLog, dlOutcome, dlCalls, cmd_linux, cmd_windows>>

\* main(), the block device image: whatever is at cloud_image is removed,
\* qemu-img create is run, and the file must be there afterwards.  The tool
\* may fail (leaving a file or not); it may also report success without
\* having made the file.
ProvisionStage ==
    /\ pc = "provision"
    /\ stages' = Append(stages, "provision")
    /\ procLog' = Append(procLog, "qemu-img create")
    /\ LET cleared == Unlink(fs, cloud_image)
       IN  \E made \in BOOLEAN :
              LET created == IF made
                             THEN WriteFile(cleared, cloud_image,
                                            [complete |-> TRUE, run |-> run])
                             ELSE cleared
              IN  /\ fs' = created
                  /\ \/ VError("ProvisionFailed", "launch")
                     \/ IF IsFile(created, cloud_image)
                        THEN /\ pc' = "launch"
                             /\ UNCHANGED <<exitStatus, err>>
                        ELSE VError("ProvisionFailed", "launch")
    /\ UNCHANGED <<run, args, linux_distro, headers, response, html,
                   iso_image, version_image, cloud_image, fsAtStart, lastRun, netLog,
                   dlOutcome, dlCalls, cmd_linux, cmd_windows>>

\* The options both command templates share, up to -device virtio-scsi-pci.
CmdCommon(iso, image, memory) ==
    << [opt |-> "qemu-system-x86_64", val |-> ""],
       [opt |-> "-cpu", val |-> "kvm64"],
       [opt |-> "-smp", val |-> "2"],
       [opt |-> "-m", val |-> memory],
       [opt |-> "-k", val |-> "fr_be"],
       [opt |-> "-machine", val |-> "q35"],
       [opt |-> "-cdrom", val |-> iso],
       [opt |-> "-drive",
        val |-> [file |-> image, if |-> "virtio", media |-> "disk",
                 format |-> "raw", cache |-> "none"]],
       [opt |-> "-device", val |-> "virtio-scsi-pci,id=virtio"] >>

\* The options both command templates end with.
CmdTail ==
    << [opt |-> "-nic",
        val |-> "user,model=virtio-net-pci,hostfwd=tcp::8022-:22"],
       [opt |-> "-vga", val |-> "qxl"],
       [opt |-> "-boot", val |-> "c"] >>

\* cmd_linux
CmdLinux(iso, image, memory) ==
    CmdCommon(iso, image, memory)
    \o << [opt |-> "-enable-kvm", val |-> ""],
          [opt |-> "-device", val |-> "virtio-serial-pci"],
          [opt |-> "-device",
           val |-> "virtserialport,chardev=spicechannel0,name=com.redhat.spice.0"],
          [opt |-> "-chardev",
           val |-> "spicevmc,id=spicechannel0,name=vdagent"] >>
    \o CmdTail

\* cmd_windows as a copy of cmd_linux.
CmdWindows_likeLinux(iso, image, memory) == CmdLinux(iso, image, memory)

\* cmd_windows
CmdWindows(iso, image, memory) ==
    CmdCommon(iso, image, memory)
    \o << [opt |-> "-device", val |-> "virtio-serial-pci"] >>
    \o CmdTail

\* main(), the launch: both commands are built, the one for sys.platform is
\* run, and a failure ends the run through v_error.
LaunchStage ==
    /\ pc = "launch"
    /\ stages' = Append(stages, "launch")
    /\ cmd_linux' = CmdLinux(iso_image, cloud_image, args.memory)
    /\ cmd_windows' = CmdWindows(iso_image, cloud_image, args.memory)
    /\ \E win32 \in BOOLEAN :
          procLog' = Append(procLog,
                            IF win32 THEN "cmd_windows" ELSE "cmd_linux")
    /\ \/ Exit(0, "none")
       \/ VError("LaunchFailed", "end")
    /\ UNCHANGED <<run, args, linux_distro, headers, response, html,
                   iso_image, version_image, cloud_image, fs, fsAtStart, lastRun,
                   netLog, dlOutcome, dlCalls>>

----------------------------------------------------------------------------
(* What the user types and what the servers serve *)

\* hrefs of an Arch Linux directory listing.
Iso2024_01_01 ==
    <<"a","r","c","h","l","i","n","u","x","-","2","0","2","4",".","0","1",".","0","1","-","x","8","6","_","6","4",".","i","s","o">>
Iso2024_03_01 ==
    <<"a","r","c","h","l","i","n","u","x","-","2","0","2","4",".","0","3",".","0","1","-","x","8","6","_","6","4",".","i","s","o">>
Iso2024_02_15 ==
    <<"a","r","c","h","l","i","n","u","x","-","2","0","2","4",".","0","2",".","1","5","-","x","8","6","_","6","4",".","i","s","o">>
IsoSig ==
    <<"a","r","c","h","l","i","n","u","x","-","2","0","2","4",".","0","3",".","0","1","-","x","8","6","_","6","4",".","i","s","o",".","s","i","g">>
ArchDir ==
    <<"a","r","c","h","/">>
IsoWithPath ==
    <<"/","i","s","o","/","l","a","t","e","s","t","/","a","r","c","h","l","i","n","u","x","-","2","0","2","4",".","0","3",".","0","1","-","x","8","6","_","6","4",".","i","s","o">>
IsoNoVersion ==
    <<"a","r","c","h","l","i","n","u","x","-","1","a","2","b","3","-","x",".","i","s","o">>

\* hrefs of a Manjaro download page.
ManjaroXfce ==
    <<"h","t","t","p","s",":","/","/","d",".","o","r","g","/","m","a","n","j","a","r","o","-","x","f","c","e","-","2","3",".","1",".","4","-","l","i","n","u","x","6","6",".","i","s","o">>
ManjaroKde ==
    <<"h","t","t","p","s",":","/","/","d",".","o","r","g","/","m","a","n","j","a","r","o","-","k","d","e","-","2","4",".","0",".","0","-","l","i","n","u","x","6","6",".","i","s","o">>

Anchor(id, href) == [id |-> id, href |-> href]

\* The pages the pipeline is served: a listing with three releases, one with
\* no release, one whose only file carries no version; a download page.
ArchPages ==
    { << Anchor("", ArchDir), Anchor("", Iso2024_01_01),
         Anchor("", Iso2024_03_01), Anchor("", Iso2024_02_15),
         Anchor("", IsoSig) >>,
      << Anchor("", ArchDir), Anchor("", IsoSig) >>,
      << Anchor("", IsoNoVersion) >> }

ManjaroPages ==
    { << Anchor("", ManjaroKde), Anchor("btn-mi", ManjaroXfce) >> }

ServedPages ==
    [url \in {ArchlinuxEntry.url, ManjaroEntry.url} |->
        IF url = ArchlinuxEntry.url THEN ArchPages ELSE ManjaroPages]

\* --distro values: a key, a key in another case, an unregistered name.
TypedNames ==
    { Archlinux, <<"M","a","n","j","a","r","o">>, <<"u","b","u","n","t","u">> }

Next ==
    \/ StartRun(TypedNames)
    \/ ImportPackages
    \/ ValidateArgs
    \/ CheckTools
    \/ GetUrlPathsSend
    \/ GetUrlPathsReceive(ServedPages)
    \/ SelectCandidate
    \/ ExtractVersion
    \/ DownloadStage
    \/ ProvisionStage
    \/ LaunchStage

Spec == Init /\ [][Next]_vars

----------------------------------------------------------------------------
(* Version extraction on its own: a process that stands before             *)
(* ExtractVersion with any short file name, or one of a few real ones.     *)

\* File names are drawn over these characters, up to MaxNameLen long.
NameAlphabet == {"7", ".", "T", "-"}

MaxNameLen == 6

ShortNames == UNION {[1..n -> NameAlphabet] : n \in 0..MaxNameLen}

NameArch ==
    <<"a","r","c","h","l","i","n","u","x","-","2","0","2","4",".","0","4",".","0","1","-","x","8","6","_","6","4",".","i","s","o">>
NameDistro ==
    <<"d","i","s","t","r","o","-","2","4",".","0","4","-","a","m","d","6","4",".","i","s","o">>
NameImage ==
    <<"i","m","a","g","e","-","2","0","2","4","0","4","0","1","T","-","x","8","6",".","i","s","o">>
NameNoVersion ==
    <<"n","o","v","e","r","s","i","o","n","h","e","r","e",".","i","s","o">>
NameKernelFirst ==
    <<"m","a","n","j","a","r","o","-","6",".","6","-","2","3",".","1",".","4",".","i","s","o">>
NameDateFirst ==
    <<"i","m","g","-","2","0","2","4","0","4","0","1","T","-","1",".","2",".","3",".","i","s","o">>

LongNames ==
    {NameArch, NameDistro, NameImage, NameNoVersion, NameKernelFirst,
     NameDateFirst}

\* A process of run 1 at position at, started with the command line a, its
\* linux_distro being ld.
ProcessWith(at, a, ld) ==
    /\ run = 1
    /\ pc = at
    /\ args = a
    /\ linux_distro = ld
    /\ headers = 0
    /\ response = Unset
    /\ iso_image = Unset
    /\ version_image = Unset
    /\ cloud_image = Unset
    /\ fs = NoFiles
    /\ fsAtStart = NoFiles
    /\ lastRun = [err |-> "none", dlOutcome |-> "none", iso_image |-> Unset]
    /\ exitStatus = 0
    /\ err = "none"
    /\ netLog = <<>>
    /\ dlOutcome = "none"
    /\ dlCalls = <<>>
    /\ cmd_linux = Unset
    /\ cmd_windows = Unset

\* A process of run 1 for the distribution key, past its lookup.
ProcessAt(at, key) ==
    ProcessWith(at, [list |-> FALSE, distro |-> key, force |-> FALSE,
                     memory |-> DefaultMemory], key)

InitExtract ==
    /\ ProcessAt("extract", Archlinux)
    /\ html \in ShortNames \cup LongNames
    /\ stages = <<"lookup", "resolve">>
    /\ procLog = RequiredApplications

NextExtract == ExtractVersion

SpecExtract == InitExtract /\ [][NextExtract]_vars

----------------------------------------------------------------------------
(* Candidate selection on its own: a process that stands before            *)
(* get_url_paths, served any page of up to MaxLinks anchors of a pool.     *)

ManjaroXfce24 ==
    <<"h","t","t","p","s",":","/","/","d",".","o","r","g","/","m","a","n","j","a","r","o","-","x","f","c","e","-","2","4",".","0",".","0","-","l","i","n","u","x","6","6",".","i","s","o">>

AnchorPool ==
    { Anchor("", Iso2024_01_01), Anchor("", Iso2024_03_01),
      Anchor("", Iso2024_02_15), Anchor("", IsoWithPath),
      Anchor("btn-mi", ManjaroXfce), Anchor("btn-mi", ManjaroXfce24),
      Anchor("btn-mi", ManjaroKde) }

MaxLinks == 3

AnyPages ==
    [url \in {ArchlinuxEntry.url, ManjaroEntry.url} |->
        UNION {[1..n -> AnchorPool] : n \in 0..MaxLinks}]

InitResolve ==
    /\ \E key \in DistroKeys : ProcessAt("fetch", key)
    /\ html = Unset
    /\ stages = <<"lookup">>
    /\ procLog = RequiredApplications

NextResolve ==
    \/ GetUrlPathsSend
    \/ GetUrlPathsReceive(AnyPages)
    \/ SelectCandidate

SpecResolve == InitResolve /\ [][NextResolve]_vars

----------------------------------------------------------------------------
(* The lookup on its own: a process started with any spelling of a key in  *)
(* upper and lower case, or with a name that is no key, which runs up to   *)
(* its first network request.                                              *)

UpperOf(c) ==
    IF \E i \in 1..Len(LowerCase) : LowerCase[i] = c
    THEN UpperCase[CHOOSE i \in 1..Len(LowerCase) : LowerCase[i] = c]
    ELSE c

CaseVariants(key) ==
    {[i \in 1..Len(key) |-> IF i \in U THEN UpperOf(key[i]) ELSE key[i]] :
        U \in SUBSET (1..Len(key))}

OtherNames ==
    { <<"u","b","u","n","t","u">>, <<"a","r","c","h">>,
      <<"a","r","c","h","l","i","n","u","x","x">>,
      <<"M","a","n","j","a","r","0">>, <<>> }

AnyNames == CaseVariants(Archlinux) \cup CaseVariants(Manjaro) \cup OtherNames

InitLookup ==
    /\ \E l \in BOOLEAN, d \in AnyNames, f \in BOOLEAN :
          ProcessWith("import", [list |-> l, distro |-> d, force |-> f,
                                 memory |-> DefaultMemory], Unset)
    /\ html = Unset
    /\ stages = <<>>
    /\ procLog = <<>>

NextLookup ==
    \/ ImportPackages
    \/ ValidateArgs
    \/ CheckTools
    \/ GetUrlPathsSend

SpecLookup == InitLookup /\ [][NextLookup]_vars

----------------------------------------------------------------------------
(* Properties *)

IsPrefix(s, t) == Len(s) <= Len(t) /\ SubSeq(t, 1, Len(s)) = s

Occurs(x, s) == \E i \in 1..Len(s) : s[i] = x

Exited == run >= 1 /\ pc = "exited"

\* The errors that end a run.
ErrorKinds ==
    {"UnknownDistribution", "MissingPrerequisite", "NoCandidateFound",
     "DownloadFailed", "ProvisionFailed", "LaunchFailed"}

\* C1.  A run that ends on an error (unknown distribution, missing tool, no
\* candidate, download failure, provisioning failure, launch failure) exits
\* with a non-zero status; status 0 comes only from a successful run or from
\* --list.
C1_ErrorExitsNonZero ==
    Exited =>
        /\ err \in ErrorKinds => exitStatus # 0
        /\ exitStatus = 0 => err = "none"

\* C2.  download_file with force=false and a file at the destination returns
\* AlreadyPresent, issues no request and leaves the file as it is.  Of two
\* successive calls with force=false on one destination, the first finding
\* no file, at most one transfers a body; when the first has written the
\* file, it is the only one to issue a request, and the second returns
\* AlreadyPresent and leaves the file as the first left it.
C2_DownloadIdempotent ==
    /\ \A i \in 1..Len(dlCalls) :
          LET c == dlCalls[i]
          IN  (~c.force /\ c.before # Absent) =>
                 /\ c.message = "AlreadyPresent"
                 /\ ~c.requested
                 /\ c.after = c.before
    /\ \A i \in 1..(Len(dlCalls) - 1) :
          LET c == dlCalls[i]
              d == dlCalls[i + 1]
              wrote(x) == x.requested /\ x.after # Absent
          IN  (c.image = d.image /\ ~c.force /\ ~d.force
                 /\ c.before = Absent) =>
                 /\ ~(wrote(c) /\ wrote(d))
                 /\ wrote(c) =>
                       /\ ~d.requested
                       /\ d.message = "AlreadyPresent"
                       /\ d.after = c.after

\* Two calls with force=false on one destination, the first of which found
\* no file and downloaded it, the second of which found it.
C2_Witness ==
    /\ Len(dlCalls) = 2
    /\ dlCalls[1].image = dlCalls[2].image
    /\ ~dlCalls[1].force /\ ~dlCalls[2].force
    /\ dlCalls[1].before = Absent
    /\ dlCalls[1].message = "Downloaded"
    /\ dlCalls[2].message = "AlreadyPresent"

\* The stage at which a run that ended with err stopped.
FailedStage ==
    CASE err \in {"UnknownDistribution", "MissingPrerequisite",
                  "CalledProcessError"} -> "lookup"
      [] err \in {"FetchError", "NoCandidateFound"} -> "resolve"
      [] err = "VersionNotFound" -> "extract"
      [] err \in {"DownloadFailed", "TypeError"} -> "download"
      [] err = "ProvisionFailed" -> "provision"
      [] err = "LaunchFailed" -> "launch"
      [] OTHER -> "none"

\* C3.  The stages of a run are started in the order lookup, resolve,
\* extract, download, provision, launch, none twice and none skipped; a run
\* in which a stage has failed has ended, and the failed stage is the last
\* one it started: no image is created after a failed download and nothing
\* is launched after a failed provisioning.
C3_StagesInOrder ==
    /\ IsPrefix(stages, StageOrder)
    /\ err # "none" => pc = "exited"
    /\ (err # "none" /\ FailedStage # "none") =>
          /\ stages # <<>>
          /\ stages[Len(stages)] = FailedStage
    /\ Occurs("qemu-img create", procLog) => Occurs("provision", stages)
    /\ (Occurs("cmd_linux", procLog) \/ Occurs("cmd_windows", procLog)) =>
          Occurs("launch", stages)
    /\ Occurs("download", netLog) => Occurs("download", stages)

\* A run that failed in the download and ended there.
C3_Witness ==
    /\ Exited
    /\ err = "DownloadFailed"
    /\ stages = SubSeq(StageOrder, 1, 4)
    /\ procLog = RequiredApplications

\* C4.  Once the provisioning stage has acted, whatever is at the image path
\* was made by this run, with --force or without: nothing of an earlier
\* image is left.  A run that goes on to the launch has the image this run
\* created; a run whose image is missing after provisioning has ended with
\* ProvisionFailed and has launched nothing.
C4_ProvisionReplacesImage ==
    Occurs("provision", stages) =>
        /\ cloud_image \in DOMAIN fs => fs[cloud_image].run = run
        /\ (pc = "launch" \/ Occurs("launch", stages)) =>
              /\ cloud_image \in DOMAIN fs
              /\ fs[cloud_image] = [complete |-> TRUE, run |-> run]
        /\ cloud_image \notin DOMAIN fs =>
              /\ pc = "exited"
              /\ err = "ProvisionFailed"
              /\ ~Occurs("launch", stages)
              /\ ~Occurs("cmd_linux", procLog)
              /\ ~Occurs("cmd_windows", procLog)

\* A run without --force that found an image of an earlier run at the image
\* path and replaced it.
C4_Witness ==
    /\ ~args.force
    /\ pc = "launch"
    /\ cloud_image \in DOMAIN fsAtStart
    /\ fsAtStart[cloud_image].run < run
    /\ fs[cloud_image].run = run

\* The three token shapes, in the order of their priority.
Kinds == <<"MAJOR.MINOR.PATCH", "MAJOR.MINOR", "DATE">>

AllDigits(t) == t # <<>> /\ \A i \in 1..Len(t) : IsDigit(t[i])

Shaped(kind, t) ==
    CASE kind = "MAJOR.MINOR.PATCH" ->
            \E i, j \in 1..Len(t) :
                /\ i < j /\ t[i] = "." /\ t[j] = "."
                /\ AllDigits(SubSeq(t, 1, i - 1))
                /\ AllDigits(SubSeq(t, i + 1, j - 1))
                /\ AllDigits(SubSeq(t, j + 1, Len(t)))
      [] kind = "MAJOR.MINOR" ->
            \E i \in 1..Len(t) :
                /\ t[i] = "."
                /\ AllDigits(SubSeq(t, 1, i - 1))
                /\ AllDigits(SubSeq(t, i + 1, Len(t)))
      [] kind = "DATE" ->
            /\ t # <<>>
            /\ t[Len(t)] = "T"
            /\ AllDigits(SubSeq(t, 1, Len(t) - 1))

\* The tokens of a kind that start at position i of f.
TokensAt(f, i, kind) ==
    {t \in {SubSeq(f, i, j) : j \in i..Len(f)} : Shaped(kind, t)}

Longest(S) == CHOOSE t \in S : \A u \in S : Len(u) <= Len(t)

HasToken(f) ==
    \E i \in 1..Len(f), k \in 1..Len(Kinds) : TokensAt(f, i, Kinds[k]) # {}

\* The token at the leftmost position where a token of any kind starts, of
\* the first kind that has one there.
LeftmostThenPriority(f) ==
    LET i0 == Min({i \in 1..Len(f) :
                     \E k \in 1..Len(Kinds) : TokensAt(f, i, Kinds[k]) # {}})
        k0 == Min({k \in 1..Len(Kinds) : TokensAt(f, i0, Kinds[k]) # {}})
    IN  Longest(TokensAt(f, i0, Kinds[k0]))

\* The leftmost token of the first kind that has a token anywhere in f.
PriorityThenLeftmost(f) ==
    LET k0 == Min({k \in 1..Len(Kinds) :
                     \E i \in 1..Len(f) : TokensAt(f, i, Kinds[k]) # {}})
        i0 == Min({i \in 1..Len(f) : TokensAt(f, i, Kinds[k0]) # {}})
    IN  Longest(TokensAt(f, i0, Kinds[k0]))

\* C5, as stated.  The version is the leftmost match of the highest-priority
\* pattern that matches anywhere in the file name: a name that holds a
\* MAJOR.MINOR.PATCH token yields one, whatever precedes it.  Without any
\* token the extraction fails.
C5_PatchTokenWins ==
    Occurs("extract", stages) =>
        IF HasToken(iso_image)
        THEN /\ err # "VersionNotFound"
             /\ version_image = PriorityThenLeftmost(iso_image)
        ELSE Exited /\ err = "VersionNotFound"

\* C5, amended.  The version is the match at the leftmost position of the
\* file name at which any of the three patterns matches; the priority
\* MAJOR.MINOR.PATCH over MAJOR.MINOR over DATE decides only between patterns
\* that match at that position.  Without any token the extraction fails.
C5_LeftmostThenPriority ==
    Occurs("extract", stages) =>
        IF HasToken(iso_image)
        THEN /\ err # "VersionNotFound"
             /\ version_image = LeftmostThenPriority(iso_image)
        ELSE Exited /\ err = "VersionNotFound"

\* A name with a MAJOR.MINOR token before its MAJOR.MINOR.PATCH token: the
\* version is the former.
C5_Witness ==
    /\ iso_image = NameKernelFirst
    /\ TokensAt(iso_image, 13, "MAJOR.MINOR.PATCH") # {}
    /\ version_image = <<"6", ".", "6">>

\* SelectCandidate has acted on the page served to this run.
Selected == response # Unset /\ pc # "select"

MatchesAtStart(pat, s) == Ends(pat, s, 1, {1}) # {}

MatchesAnywhere(pat, s) == \E i \in 1..(Len(s) + 1) : Ends(pat, s, 1, {i}) # {}

\* The hrefs of a page that the entry's link pattern captures.
Captured(entry, page) ==
    {page[i].href :
        i \in {j \in 1..Len(page) :
                  entry.url_pattern = "" \/ page[j].id = entry.url_pattern}}

\* The captured hrefs that the filter pattern matches from their start.
CandidateSet(entry, page) ==
    {c \in Captured(entry, page) : MatchesAtStart(entry.filter_value, c)}

StartsWith(prefix, s) ==
    Len(s) >= Len(prefix) /\ SubSeq(s, 1, Len(prefix)) = prefix

MakeAbsolute(entry, c) ==
    IF StartsWith(HttpsPrefix, c) THEN c ELSE entry.url \o c

\* C6.  When the page has candidates, the one selected is the greatest of
\* them in the lexicographic order, made absolute.  It is determined by the
\* set of candidates alone: not by their order in the page, nor by the
\* User-Agent the request was sent with.
C6_SelectsGreatest ==
    Selected =>
        LET entry == DISTRO_OS(linux_distro)
            cands == CandidateSet(entry, response)
        IN  cands # {} =>
               /\ err # "NoCandidateFound"
               /\ \E g \in cands :
                     /\ \A c \in cands : ~StrLess(g, c)
                     /\ html = MakeAbsolute(entry, g)

\* The listing of the three releases, the newest in the middle: 2024.03.01
\* is selected.
C6_Witness ==
    /\ linux_distro = Archlinux
    /\ response = << Anchor("", Iso2024_01_01), Anchor("", Iso2024_03_01),
                     Anchor("", Iso2024_02_15) >>
    /\ pc = "extract"
    /\ html = ArchlinuxEntry.url \o Iso2024_03_01

\* C7.  A name that is a key of DISTRO_OS up to the case of its letters is
\* looked up successfully and gives that key's entry; any other name ends
\* the run with UnknownDistribution, before any network request, any QEMU
\* command and any change to the working directory.
SameIgnoringCase(a, b) ==
    /\ Len(a) = Len(b)
    /\ \A i \in 1..Len(a) :
          \/ a[i] = b[i]
          \/ \E k \in 1..Len(UpperCase) :
                {a[i], b[i]} = {UpperCase[k], LowerCase[k]}

OptionValues(cmd, opt) ==
    {cmd[i].val : i \in {j \in 1..Len(cmd) : cmd[j].opt = opt}}

\* What both templates wire: the ISO as the CD-ROM, the image as a virtio
\* disk; and what the Windows template leaves out: -enable-kvm, the spice
\* agent's port and its character device.
WiresBoth ==
    /\ OptionValues(cmd_linux, "-cdrom") = {iso_image}
    /\ OptionValues(cmd_windows, "-cdrom") = {iso_image}
    /\ OptionValues(cmd_linux, "-drive") = OptionValues(cmd_windows, "-drive")
    /\ \A d \in OptionValues(cmd_windows, "-drive") :
          d.file = cloud_image /\ d.if = "virtio" /\ d.media = "disk"
    /\ Cardinality(OptionValues(cmd_windows, "-drive")) = 1
    /\ OptionValues(cmd_linux, "-enable-kvm") # {}
    /\ OptionValues(cmd_windows, "-enable-kvm") = {}
    /\ OptionValues(cmd_linux, "-chardev") # {}
    /\ OptionValues(cmd_windows, "-chardev") = {}
    /\ OptionValues(cmd_windows, "-device")
          = {"virtio-scsi-pci,id=virtio", "virtio-serial-pci"}
    /\ OptionValues(cmd_windows, "-device") \subseteq
          OptionValues(cmd_linux, "-device")

\* C8, as stated.  Both templates wire the same ISO as the CD-ROM and the
\* same image as the virtio disk, with a boot order that tries the CD-ROM
\* first (QEMU's drive letter d); the Windows template has none of the
\* acceleration and guest-agent options of the Linux one.
C8_CdromBootsFirst ==
    Occurs("launch", stages) =>
        /\ WiresBoth
        /\ OptionValues(cmd_linux, "-boot") = {"d"}
        /\ OptionValues(cmd_windows, "-boot") = {"d"}

\* C8, amended.  As above, but the boot order both templates give is
\* -boot c, QEMU's drive letter for the first hard disk: the virtio image is
\* tried first, not the CD-ROM.
C8_DiskBootsFirst ==
    Occurs("launch", stages) =>
        /\ WiresBoth
        /\ OptionValues(cmd_linux, "-boot") = {"c"}
        /\ OptionValues(cmd_windows, "-boot") = {"c"}

\* A launch on a Windows host.
C8_Witness ==
    /\ Occurs("launch", stages)
    /\ Occurs("cmd_windows", procLog)
    /\ cmd_windows # Unset

\* C9, as stated.  The filter keeps the links the filter pattern matches
\* anywhere: the selection fails with NoCandidateFound only when no captured
\* link holds a match at any position.
C9_FilterMatchesAnywhere ==
    Selected =>
        LET entry == DISTRO_OS(linux_distro)
        IN  err = "NoCandidateFound" <=>
               \A c \in Captured(entry, response) :
                   ~MatchesAnywhere(entry.filter_value, c)

\* C9, amended.  The filter keeps the links the filter pattern matches from
\* their first character: the selection fails with NoCandidateFound exactly
\* when no captured link matches from its start, and what it selects is
\* such a link.
C9_FilterMatchesAtStart ==
    Selected =>
        LET entry == DISTRO_OS(linux_distro)
            cands == CandidateSet(entry, response)
        IN  /\ err = "NoCandidateFound" <=> cands = {}
            /\ err # "NoCandidateFound" =>
                  \E c \in cands : html = MakeAbsolute(entry, c)

\* A listing whose only link holds a release name behind a path: the
\* pattern matches in it, but not from its start, and nothing is selected.
C9_Witness ==
    /\ linux_distro = Archlinux
    /\ response = << Anchor("", IsoWithPath) >>
    /\ MatchesAnywhere(ArchlinuxEntry.filter_value, IsoWithPath)
    /\ Exited
    /\ err = "NoCandidateFound"

\* C10.  A download that fails leaves no partly written file at the
\* destination, and no call returns AlreadyPresent for a file that is
\* incomplete.
C10_NoPartialFile ==
    \A i \in 1..Len(dlCalls) :
        LET c == dlCalls[i]
        IN  /\ c.message = "DownloadFailed" =>
                  (c.after = Absent \/ c.after.complete)
            /\ c.message = "AlreadyPresent" => c.before.complete

\* The failures of the stages that come after the download.
LaterFailures == {"ProvisionFailed", "LaunchFailed"}

\* C11.  A run whose download_file returned Downloaded and which then ended
\* with a failure of the provisioning or of the launch leaves the ISO at its
\* path as the download wrote it.  In the run after such a run, started
\* without --force and resolving the same ISO, download_file finds that
\* file: it returns AlreadyPresent, issues no request and leaves the file as
\* it is.
C11_IsoKeptAndReused ==
    /\ (Exited /\ err \in LaterFailures /\ dlOutcome = "Downloaded") =>
          /\ Content(fs, iso_image) = [complete |-> TRUE, run |-> run]
          /\ Content(fs, iso_image) = dlCalls[Len(dlCalls)].after
    /\ (/\ lastRun.err \in LaterFailures
        /\ lastRun.dlOutcome = "Downloaded"
        /\ ~args.force
        /\ Occurs("download", stages)
        /\ iso_image = lastRun.iso_image) =>
          LET d == dlCalls[Len(dlCalls)]
          IN  /\ d.message = "AlreadyPresent"
              /\ dlOutcome = "AlreadyPresent"
              /\ ~d.requested
              /\ ~Occurs("download", netLog)
              /\ d.before = [complete |-> TRUE, run |-> run - 1]
              /\ d.after = d.before
              /\ Content(fs, iso_image) = d.before

\* A run without --force that follows a run whose provisioning failed after
\* its download, and has found the ISO of that run.
C11_Witness ==
    /\ lastRun.err = "ProvisionFailed"
    /\ lastRun.dlOutcome = "Downloaded"
    /\ ~args.force
    /\ pc = "provision"
    /\ iso_image = lastRun.iso_image
    /\ dlOutcome = "AlreadyPresent"

\* C12.  A run that stands before the launch, or has started it, has a file
\* at the ISO path and a file at the image path, and its download_file
\* returned Downloaded or AlreadyPresent; no command is run without both.
C12_LaunchHasBothFiles ==
    /\ (pc = "launch" \/ Occurs("launch", stages)) =>
          /\ iso_image \in DOMAIN fs
          /\ cloud_image \in DOMAIN fs
          /\ iso_image # cloud_image
          /\ dlOutcome \in {"Downloaded", "AlreadyPresent"}
    /\ (Occurs("cmd_linux", procLog) \/ Occurs("cmd_windows", procLog)) =>
          /\ OptionValues(cmd_linux, "-cdrom") \subseteq DOMAIN fs
          /\ OptionValues(cmd_windows, "-cdrom") \subseteq DOMAIN fs
          /\ \A v \in OptionValues(cmd_linux, "-drive")
                      \cup OptionValues(cmd_windows, "-drive") :
                 v.file \in DOMAIN fs

\* A run that has launched the hypervisor on an ISO it found in the working
\* directory and an image it created.
C12_Witness ==
    /\ Occurs("launch", stages)
    /\ dlOutcome = "AlreadyPresent"
    /\ iso_image \in DOMAIN fsAtStart
    /\ OptionValues(cmd_linux, "-cdrom") = {iso_image}
    /\ fs[cloud_image].run = run

====
